---- MODULE Spec2Model ----
(***************************************************************************)
(* Budget-record workflow and KPI records of the Finance & Budget          *)
(* dashboard (finance.py).                                                 *)
(*                                                                         *)
(* The program is a Streamlit script.  Its state lives in the session      *)
(* state: the budget table and the KPI table (DataFrames), the user id and *)
(* the widget values.  Every interaction (a radio change, a button click)  *)
(* runs the whole script once: the metric columns are recomputed on the    *)
(* stored tables, then the handler of the clicked button runs and ends in  *)
(* st.rerun(), which runs the script (and the metric computation) again.   *)
(* Script runs of one session never interleave, so one action below is one *)
(* script run including the rerun it triggers.  The metric computation at  *)
(* the top of the run that handles a click finds the columns as the rerun  *)
(* ending the previous action left them (MetricsStored), so a handler      *)
(* reads the stored table (get_budgets) and EndRun applies the             *)
(* computation of the rerun.                                               *)
(*                                                                         *)
(* Modelling conventions:                                                  *)
(*  - an id is a natural number; EmptyId stands for the empty string '';   *)
(*    uuid.uuid4() is modelled as a fresh id (next_id);                    *)
(*  - datetime.now() at a creation is the logical time next_id;            *)
(*  - a column a row has no value for (pandas NaN, or a column that does   *)
(*    not exist yet) is NaN; a metric column is a field of a row only      *)
(*    once the metric computation has written it;                          *)
(*  - the column 'Variance (%)' is the field Variance_pct, kept in         *)
(*    hundredths of a percent (the code rounds to two decimals); likewise  *)
(*    'Progress (%)' is Progress_pct;                                      *)
(*  - target_value and actual_value of a KPI are kept in hundredths (the   *)
(*    dummy data has 0.9, 0.85, 0.15 and 0.12).                            *)
(***************************************************************************)
EXTENDS Integers, Sequences, FiniteSets, TLC

(* finance_data   st.session_state['finance_data']: the rows of the table  *)
(* user_id        st.session_state['user_id']                              *)
(* selected_role  the value of the role radio                              *)
(* next_id        the id the next uuid4() call returns                     *)
(* feedback       the message kind the last run showed (st.success,        *)
(*                st.warning, st.info, st.error), "none" when it showed    *)
(*                none                                                     *)
(* ops            the number of runs that changed the table                *)
(* creator        history: for every id issued, the LastUpdatedBy the row  *)
(*                was created with                                         *)
(* kpi_data       st.session_state['kpi_data']: the rows of the KPI table  *)
(* next_kpi_id    the id the next uuid4() call of a KPI creation returns   *)
(* was_pending    history: the ids of the stored budget records that have  *)
(*                had status 'Pending Approval' in this or an earlier      *)
(*                state                                                    *)
VARIABLES finance_data, user_id, selected_role, next_id, feedback, ops, creator,
          kpi_data, next_kpi_id, was_pending

vars == << finance_data, user_id, selected_role, next_id, feedback, ops, creator,
           kpi_data, next_kpi_id, was_pending >>

(* ---- bounds of the model ---- *)
InitRows == 3

MaxOps == 5

InitKpiRows == 2

(* the amounts 0 .. MaxAmount are among those the metric computations are   *)
(* applied to                                                              *)
MaxAmount == 6

(* the tables delete_budget is applied to hold rows out of the first       *)
(* DeleteRows dummy rows, in any order                                     *)
DeleteRows == 4

(* what a run that changes the KPI table counts for in ops *)
KpiOpCost == 2

(* ---- values ---- *)
EmptyId == 0

NaN == "NaN"

Roles == { "Viewer", "Maker", "Checker", "Approver" }

Statuses == { "Draft", "Pending Approval", "Approved by Checker", "Approved", "Rejected" }

DummyProgram ==
    << "Education", "Education", "Education", "Healthcare", "Healthcare", "Healthcare",
       "Community Dev", "Community Dev", "Community Dev", "Greenr - RG1", "Greenr - RG1", "Greenr - RG2",
       "Greenr - RG2", "PMU - Dairy Dev", "PMU - Dairy Dev", "PMU - Cotton", "PMU - Coffee", "PMU - Turmeric",
       "Education", "Healthcare", "Community Dev", "Greenr - RG1", "PMU - Dairy Dev", "PMU - Cotton",
       "Education", "Healthcare", "Community Dev", "Greenr - RG2", "PMU - Coffee", "PMU - Turmeric" >>

DummyCategory ==
    << "Salaries", "Rent", "Utilities", "Salaries", "Supplies", "Travel",
       "Marketing", "Training", "Operations", "IT Services", "Office Supplies", "Consulting Fees",
       "Travel", "Raw Materials", "Processing", "Seed Costs", "Logistics", "Packaging",
       "Salaries", "Supplies", "Rent", "Travel", "Processing", "Harvesting",
       "Utilities", "Training", "Marketing", "IT Services", "Logistics", "Raw Materials" >>

DummyBudget ==
    << 150000, 30000, 15000, 100000, 20000, 25000,
       12000, 8000, 20000, 50000, 7000, 40000,
       18000, 60000, 35000, 22000, 15000, 10000,
       140000, 25000, 28000, 20000, 38000, 24000,
       16000, 9000, 13000, 48000, 17000, 11000 >>

DummyActual ==
    << 145000, 32000, 14000, 98000, 22000, 27000,
       11000, 9000, 21000, 52000, 6500, 39000,
       19000, 58000, 37000, 23000, 16000, 9500,
       138000, 26000, 27500, 21000, 39000, 23500,
       15500, 9200, 12500, 47000, 17500, 10500 >>

DummyStatus ==
    << "Approved", "Pending Approval", "Draft", "Approved", "Approved", "Pending Approval",
       "Approved", "Draft", "Approved", "Pending Approval", "Draft", "Approved",
       "Rejected", "Approved", "Pending Approval", "Draft", "Approved", "Approved",
       "Pending Approval", "Draft", "Approved", "Rejected", "Pending Approval", "Approved",
       "Draft", "Approved", "Pending Approval", "Approved", "Rejected", "Approved" >>

DummyLastUpdatedBy ==
    << "user123", "Test Finance", "user456", "user123", "user456", "Test Finance",
       "user789", "user123", "Test Finance", "user456", "user789", "Test Finance",
       "user123", "user456", "Test Finance", "user789", "user123", "user456",
       "Test Finance", "user789", "user123", "Test Finance", "user456", "user789",
       "user123", "Test Finance", "user456", "user789", "Test Finance", "user123" >>

(* Values typed into the budget entry form: one valid entry (the spec's     *)
(* example), two entries with an empty text and two with a negative        *)
(* amount.                                                                 *)
FormInputs ==
    { [Program |-> "Health", Category |-> "Travel", Budget |-> 25000, Actual |-> 28000],
      [Program |-> "",       Category |-> "Travel", Budget |-> 25000, Actual |-> 28000],
      [Program |-> "Health", Category |-> "",       Budget |-> 25000, Actual |-> 28000],
      [Program |-> "Health", Category |-> "Travel", Budget |-> -1,    Actual |-> 28000],
      [Program |-> "Health", Category |-> "Travel", Budget |-> 25000, Actual |-> -1] }

(* min_value=0.0 of the number inputs *)
MinValue == 0

(* Faulty variant of number_input: min_value is not passed.                *)
number_input_no_min(min_value, typed) == TRUE

(* st.number_input(min_value=...): the widget hands the handler a typed    *)
(* value only when it is not below min_value                               *)
number_input(min_value, typed) == typed >= min_value

(* Ids that can be typed into a text input: the empty string, every id     *)
(* issued so far and one that is in no row (the next one).                 *)
TypedIds == 0 .. next_id

(* ---- helpers on the table ---- *)
Ids(df) == { df[i].id : i \in 1 .. Len(df) }

(* df[df['id'] == doc_id].index[0] *)
IndexOf(df, doc_id) ==
    CHOOSE i \in 1 .. Len(df) :
        /\ df[i].id = doc_id
        /\ \A j \in 1 .. (i - 1) : df[j].id # doc_id

(* Faulty variant of RoundDiv: the quotient is cut off instead of rounded.  *)
RoundDiv_truncating(n, d) == n \div d

(* n / d rounded to the nearest integer, ties to even (d # 0) *)
RoundDiv(n, d) ==
    LET num == IF d < 0 THEN 0 - n ELSE n
        den == IF d < 0 THEN 0 - d ELSE d
        q == num \div den
        r == num % den
    IN  IF 2 * r < den THEN q
        ELSE IF 2 * r > den THEN q + 1
        ELSE IF q % 2 = 0 THEN q ELSE q + 1

Variance(row) == row.Actual - row.Budget

VariancePercent(row) ==
    IF row.Budget # 0 THEN RoundDiv(Variance(row) * 10000, row.Budget) ELSE 0

(* finance_df['Variance'] = ..., finance_df['Variance (%)'] = ...: the     *)
(* metric columns are assigned on the table get_budgets() returned, which  *)
(* is the stored table itself                                              *)
ComputeMetrics(df) ==
    [ i \in 1 .. Len(df) |->
        [ Variance |-> Variance(df[i]),
          Variance_pct |-> VariancePercent(df[i]) ] @@ df[i] ]

NewRow(id, program, category, budget, actual, status, who, at) ==
    [ id |-> id, Program |-> program, Category |-> category,
      Budget |-> budget, Actual |-> actual, Status |-> status,
      LastUpdatedBy |-> who, created_at |-> at,
      CheckerReviewedBy |-> NaN, CheckerComments |-> NaN,
      ApprovedBy |-> NaN, RejectedBy |-> NaN ]

(* ---- the KPI table ---- *)
DummyKpiName ==
    << "Reduce Operational Costs (Education)",
       "Increase Beneficiary Reach (Healthcare)",
       "Improve Community Engagement (Community Dev)",
       "Greenr - Achieve Carbon Neutrality (RG1)",
       "PMU - Dairy Yield Improvement", "PMU - Cotton Quality Index",
       "PMU - Coffee Farmer Income Growth", "PMU - Turmeric Production Increase" >>

DummyAssociatedProgram ==
    << "Education", "Healthcare", "Community Dev", "Greenr - RG1",
       "PMU - Dairy Dev", "PMU - Cotton", "PMU - Coffee", "PMU - Turmeric" >>

DummyTargetValue == << 10000000, 500000, 8000, 10000, 1000000, 90, 15, 5000000 >>

DummyActualValue == << 9500000, 480000, 7500, 9000, 950000, 85, 12, 4800000 >>

DummyUnit ==
    << "Rs", "Beneficiaries", "% Participation", "% of Target", "Litres/Day",
       "Index", "% Growth", "Kg" >>

DummyKpiStatus ==
    << "On Track", "On Track", "At Risk", "At Risk", "On Track", "At Risk",
       "On Track", "On Track" >>

DummyKpiLastUpdatedBy ==
    << "user123", "Test Finance", "user789", "Test Finance", "user456",
       "user123", "Test Finance", "user789" >>

NewKpiRow(id, name, program, target, actual, unit, status, who, at) ==
    [ id |-> id, name |-> name, associated_program |-> program,
      target_value |-> target, actual_value |-> actual, unit |-> unit,
      status |-> status, last_updated_by |-> who, created_at |-> at ]

kpi_dummy_data ==
    [ i \in 1 .. InitKpiRows |->
        NewKpiRow(i, DummyKpiName[i], DummyAssociatedProgram[i],
                  DummyTargetValue[i], DummyActualValue[i], DummyUnit[i],
                  DummyKpiStatus[i], DummyKpiLastUpdatedBy[i], 0) ]

(* (n / d) * 100 rounded to two decimals, in hundredths: RoundDiv(n * 10000, *)
(* d) divided in three steps so that no product leaves the 32-bit range    *)
PercentOf(n, d) ==
    LET num == IF d < 0 THEN 0 - n ELSE n
        den == IF d < 0 THEN 0 - d ELSE d
        r0 == num % den
        r1 == (r0 * 100) % den
    IN  (num \div den) * 10000 + ((r0 * 100) \div den) * 100 + RoundDiv(r1 * 100, den)

ProgressPercent(row) ==
    IF row.target_value # 0
    THEN PercentOf(row.actual_value, row.target_value)
    ELSE 0

(* kpi_df['Progress (%)'] = ...: assigned on the table get_kpis() returned, *)
(* which is the stored table itself                                        *)
ComputeProgress(df) ==
    [ i \in 1 .. Len(df) |-> [ Progress_pct |-> ProgressPercent(df[i]) ] @@ df[i] ]

get_kpis == kpi_data

(* the ids that can be typed or selected for a KPI, EmptyId included *)
TypedKpiIds == 0 .. next_kpi_id

financial_dummy_data ==
    [ i \in 1 .. InitRows |->
        NewRow(i, DummyProgram[i], DummyCategory[i], DummyBudget[i], DummyActual[i],
               DummyStatus[i], DummyLastUpdatedBy[i], 0) ]

get_budgets == finance_data

(* the history was_pending after a run that leaves the table df *)
NotePending(seen, df) ==
    ( seen \cup { df[i].id : i \in { j \in 1 .. Len(df) :
                                        df[j].Status = "Pending Approval" } } )
        \cap Ids(df)

Init ==
    /\ finance_data = ComputeMetrics(financial_dummy_data)
    /\ user_id = "Test Finance"
    /\ selected_role = "Viewer"
    /\ next_id = InitRows + 1
    /\ feedback = "none"
    /\ ops = 0
    /\ creator = [ i \in 1 .. InitRows |-> DummyLastUpdatedBy[i] ]
    /\ kpi_data = ComputeProgress(kpi_dummy_data)
    /\ next_kpi_id = InitKpiRows + 1
    /\ was_pending = NotePending({}, finance_data)

(* ---- data management functions ---- *)

(* Faulty variant of UpdateRow: the update also stamps the acting user as   *)
(* the reviewer.                                                           *)
UpdateRow_stamps_reviewer(row, data) ==
    [ k \in DOMAIN row |->
        IF k \in DOMAIN data THEN data[k]
        ELSE IF k = "CheckerReviewedBy" THEN user_id
        ELSE row[k] ]

(* for key, value in data.items(): current_df.loc[idx, key] = value *)
UpdateRow(row, data) ==
    [ k \in DOMAIN row |-> IF k \in DOMAIN data THEN data[k] ELSE row[k] ]

(* Faulty variant of NewEntry: the id is a constant instead of the fresh    *)
(* uuid.                                                                   *)
NewEntry_constant_id(new_id, now, data) ==
    [ k \in DOMAIN NewRow(0, "", "", 0, 0, "", "", 0) |->
        IF k \in DOMAIN data THEN data[k]
        ELSE IF k = "id" THEN 1
        ELSE IF k = "created_at" THEN now
        ELSE NaN ]

(* pd.DataFrame([{'id': new_id, 'created_at': now, **data}]) aligned to    *)
(* the columns of the table; a column the entry lacks holds NaN            *)
NewEntry(new_id, now, data) ==
    [ k \in DOMAIN NewRow(0, "", "", 0, 0, "", "", 0) |->
        IF k \in DOMAIN data THEN data[k]
        ELSE IF k = "id" THEN new_id
        ELSE IF k = "created_at" THEN now
        ELSE NaN ]

(* Faulty variant of add_or_update_budget: the insert branch stores the    *)
(* new row alone instead of concatenating it to the table.                 *)
add_or_update_budget_lost_concat(df, doc_id, data, new_id, now) ==
    IF doc_id # EmptyId
    THEN IF doc_id \in Ids(df)
         THEN [ df  |-> [ df EXCEPT ![IndexOf(df, doc_id)] = UpdateRow(@, data) ],
                msg |-> "success" ]
         ELSE [ df |-> df, msg |-> "error" ]
    ELSE [ df  |-> << NewEntry(new_id, now, data) >>,
           msg |-> "success" ]

(* add_or_update_budget(doc_id, **data): the new table and the message *)
add_or_update_budget(df, doc_id, data, new_id, now) ==
    IF doc_id # EmptyId
    THEN IF doc_id \in Ids(df)
         THEN [ df  |-> [ df EXCEPT ![IndexOf(df, doc_id)] = UpdateRow(@, data) ],
                msg |-> "success" ]
         ELSE [ df |-> df, msg |-> "error" ]
    ELSE [ df  |-> Append(df, NewEntry(new_id, now, data)),
           msg |-> "success" ]

(* Faulty variant of delete_budget: the mask is inverted, so the row with  *)
(* the id is the only one kept.                                            *)
delete_budget_inverted_mask(df, doc_id) ==
    LET Keep(row) == row.id = doc_id
        kept == SelectSeq(df, Keep)
    IN  [ df  |-> kept,
          msg |-> IF Len(kept) < Len(df) THEN "success" ELSE "warning" ]

(* Faulty variant of delete_budget: success is reported whether or not a   *)
(* row was removed.                                                        *)
delete_budget_always_success(df, doc_id) ==
    LET Keep(row) == row.id # doc_id
        kept == SelectSeq(df, Keep)
    IN  [ df  |-> kept, msg |-> "success" ]

(* delete_budget(doc_id): the new table and the message *)
delete_budget(df, doc_id) ==
    LET Keep(row) == row.id # doc_id
        kept == SelectSeq(df, Keep)
    IN  [ df  |-> kept,
          msg |-> IF Len(kept) < Len(df) THEN "success" ELSE "warning" ]

(* pd.DataFrame([{'id': new_id, 'created_at': now, **data}]) for the KPI   *)
(* table                                                                   *)
NewKpiEntry(new_id, now, data) ==
    [ k \in DOMAIN NewKpiRow(0, "", "", 0, 0, "", "", "", 0) |->
        IF k \in DOMAIN data THEN data[k]
        ELSE IF k = "id" THEN new_id
        ELSE IF k = "created_at" THEN now
        ELSE NaN ]

(* add_or_update_kpi(doc_id, **data): the new table and the message *)
add_or_update_kpi(df, doc_id, data, new_id, now) ==
    IF doc_id # EmptyId
    THEN IF doc_id \in Ids(df)
         THEN [ df  |-> [ df EXCEPT ![IndexOf(df, doc_id)] = UpdateRow(@, data) ],
                msg |-> "success" ]
         ELSE [ df |-> df, msg |-> "error" ]
    ELSE [ df  |-> Append(df, NewKpiEntry(new_id, now, data)),
           msg |-> "success" ]

(* delete_kpi(doc_id): the new table and the message *)
delete_kpi(df, doc_id) ==
    LET Keep(row) == row.id # doc_id
        kept == SelectSeq(df, Keep)
    IN  [ df  |-> kept,
          msg |-> IF Len(kept) < Len(df) THEN "success" ELSE "warning" ]

(* ---- role-visible selections ---- *)
(* Faulty variant of maker_submittable_entries: Approved rows are offered  *)
(* for submission too.                                                     *)
maker_submittable_entries_with_approved(df) ==
    LET Keep(row) == /\ row.LastUpdatedBy = user_id
                     /\ row.Status \in { "Draft", "Rejected", "Approved" }
    IN  SelectSeq(df, Keep)

maker_submittable_entries(df) ==
    LET Keep(row) == /\ row.LastUpdatedBy = user_id
                     /\ row.Status \in { "Draft", "Rejected" }
    IN  SelectSeq(df, Keep)

(* Faulty variant of maker_entries: the LastUpdatedBy test is missing.     *)
maker_entries_any_owner(df) ==
    LET Keep(row) == row.Status \in { "Draft", "Pending Approval", "Rejected" }
    IN  SelectSeq(df, Keep)

maker_entries(df) ==
    LET Keep(row) == /\ row.LastUpdatedBy = user_id
                     /\ row.Status \in { "Draft", "Pending Approval", "Rejected" }
    IN  SelectSeq(df, Keep)

(* Faulty variant of pending_entries: Draft rows are selected too.         *)
pending_entries_with_draft(df) ==
    LET Keep(row) == row.Status \in { "Pending Approval", "Draft" }
    IN  SelectSeq(df, Keep)

pending_entries(df) ==
    LET Keep(row) == row.Status = "Pending Approval"
    IN  SelectSeq(df, Keep)

(* Faulty variant of entries_for_approval: 'Draft' records are offered to   *)
(* the Approver too.                                                       *)
entries_for_approval_with_draft(df) ==
    LET Keep(row) ==
            row.Status \in { "Draft", "Pending Approval", "Approved by Checker" }
    IN  SelectSeq(df, Keep)

(* Faulty variant of entries_for_approval: 'Pending Approval' is left out.  *)
entries_for_approval_without_pending(df) ==
    LET Keep(row) == row.Status = "Approved by Checker"
    IN  SelectSeq(df, Keep)

entries_for_approval(df) ==
    LET Keep(row) == row.Status \in { "Pending Approval", "Approved by Checker" }
    IN  SelectSeq(df, Keep)

approved_entries(df) ==
    LET Keep(row) == row.Status = "Approved"
    IN  SelectSeq(df, Keep)

(* maker_kpis: the KPI rows last updated by the user *)
maker_kpis(df) ==
    LET Keep(row) == row.last_updated_by = user_id
    IN  SelectSeq(df, Keep)

(* the options of the 'Associated Program' selectbox, '' left out *)
available_programs(df) == { df[i].Program : i \in 1 .. Len(df) }

(* Faulty variant of progress_bar: the value is not capped.                 *)
progress_bar_unclamped(row) == row.Progress_pct

(* st.progress(min(float(row['Progress (%)']) / 100, 1.0)): the value of   *)
(* the bar, in hundredths of a percent                                     *)
progress_bar(row) ==
    IF row.Progress_pct < 10000 THEN row.Progress_pct ELSE 10000

(* the table st.dataframe shows in the branch of each role *)
role_entries(role, df) ==
    CASE role = "Maker"    -> maker_entries(df)
      [] role = "Checker"  -> pending_entries(df)
      [] role = "Approver" -> entries_for_approval(df)
      [] role = "Viewer"   -> approved_entries(df)

(* ---- one script run ---- *)

(* The end of a run: the table the handler left is stored and the rerun    *)
(* recomputes its metric columns.  ops counts the runs that changed the    *)
(* table and is capped by MaxOps.                                          *)
EndRun(df, msg) ==
    LET stored == ComputeMetrics(df)
    IN  /\ finance_data' = stored
        /\ feedback' = msg
        /\ IF stored # finance_data
           THEN ops < MaxOps /\ ops' = ops + 1
           ELSE ops' = ops
        /\ was_pending' = NotePending(was_pending, stored)
        /\ UNCHANGED << kpi_data, next_kpi_id >>

(* ---- the radio that selects the role ---- *)
SelectRole(r) ==
    /\ r # selected_role
    /\ selected_role' = r
    /\ EndRun(get_budgets, "none")
    /\ UNCHANGED << user_id, next_id, creator >>

(* Faulty variant of SaveBudgetEntry: the saved status is 'Draft' for an    *)
(* edit too, instead of the status the record has.                         *)
SaveBudgetEntry_always_draft(selected_doc_id, form) ==
    /\ selected_role = "Maker"
    /\ LET finance_df == get_budgets
       IN  /\ selected_doc_id \in { EmptyId } \cup Ids(finance_df)
           /\ number_input(MinValue, form.Budget)
           /\ number_input(MinValue, form.Actual)
           /\ IF form.Program = "" \/ form.Category = ""
              THEN /\ EndRun(finance_df, "warning")
                   /\ UNCHANGED << next_id, creator >>
              ELSE LET status ==
                           "Draft"
                       entry_data ==
                           [ Program |-> form.Program, Category |-> form.Category,
                             Budget |-> form.Budget, Actual |-> form.Actual,
                             Status |-> status, LastUpdatedBy |-> user_id ]
                       res == add_or_update_budget(finance_df, selected_doc_id,
                                                   entry_data, next_id, next_id)
                   IN  /\ EndRun(res.df, res.msg)
                       /\ IF selected_doc_id = EmptyId
                          THEN /\ next_id' = next_id + 1
                               /\ creator' = (next_id :> user_id) @@ creator
                          ELSE UNCHANGED << next_id, creator >>
    /\ UNCHANGED << user_id, selected_role >>

(* ---- Maker: budget_entry_form, "Save Budget Entry" ---- *)
SaveBudgetEntry(selected_doc_id, form) ==
    /\ selected_role = "Maker"
    /\ LET finance_df == get_budgets
       IN  /\ selected_doc_id \in { EmptyId } \cup Ids(finance_df)
           /\ number_input(MinValue, form.Budget)
           /\ number_input(MinValue, form.Actual)
           /\ IF form.Program = "" \/ form.Category = ""
              THEN /\ EndRun(finance_df, "warning")
                   /\ UNCHANGED << next_id, creator >>
              ELSE LET status ==
                           IF selected_doc_id = EmptyId THEN "Draft"
                           ELSE finance_df[IndexOf(finance_df, selected_doc_id)].Status
                       entry_data ==
                           [ Program |-> form.Program, Category |-> form.Category,
                             Budget |-> form.Budget, Actual |-> form.Actual,
                             Status |-> status, LastUpdatedBy |-> user_id ]
                       res == add_or_update_budget(finance_df, selected_doc_id,
                                                   entry_data, next_id, next_id)
                   IN  /\ EndRun(res.df, res.msg)
                       /\ IF selected_doc_id = EmptyId
                          THEN /\ next_id' = next_id + 1
                               /\ creator' = (next_id :> user_id) @@ creator
                          ELSE UNCHANGED << next_id, creator >>
    /\ UNCHANGED << user_id, selected_role >>

(* ---- Maker: "Submit Selected Budget for Review" ---- *)
SubmitBudget(submit_select_id) ==
    /\ selected_role = "Maker"
    /\ LET finance_df == get_budgets
           submittable == maker_submittable_entries(finance_df)
       IN  /\ Len(finance_df) > 0
           /\ Len(submittable) > 0
           /\ submit_select_id \in { EmptyId } \cup Ids(submittable)
           /\ IF submit_select_id # EmptyId
              THEN EndRun([ finance_df EXCEPT
                              ![IndexOf(finance_df, submit_select_id)].Status =
                                  "Pending Approval" ],
                          "success")
              ELSE EndRun(finance_df, "warning")
    /\ UNCHANGED << user_id, selected_role, next_id, creator >>

(* ---- Maker: "Delete Selected Entry" ---- *)
DeleteEntry(delete_id) ==
    /\ selected_role = "Maker"
    /\ LET finance_df == get_budgets
           own == maker_entries(finance_df)
       IN  /\ Len(finance_df) > 0
           /\ Len(own) > 0
           /\ IF delete_id # EmptyId /\ delete_id \in Ids(own)
              THEN LET res == delete_budget(finance_df, delete_id)
                   IN  EndRun(res.df, res.msg)
              ELSE EndRun(finance_df, "warning")
    /\ UNCHANGED << user_id, selected_role, next_id, creator >>

(* Faulty variant of CheckerApprove: the id is looked up in the whole      *)
(* table instead of pending_entries.                                       *)
CheckerApprove_any_row(review_doc_id) ==
    /\ selected_role = "Checker"
    /\ LET finance_df == get_budgets
           pending == pending_entries(finance_df)
       IN  /\ Len(finance_df) > 0
           /\ Len(pending) > 0
           /\ IF review_doc_id # EmptyId /\ review_doc_id \in Ids(finance_df)
              THEN LET idx == IndexOf(finance_df, review_doc_id)
                   IN  EndRun([ finance_df EXCEPT
                                  ![idx].Status = "Approved by Checker",
                                  ![idx].CheckerReviewedBy = user_id ],
                              "success")
              ELSE EndRun(finance_df, "warning")
    /\ UNCHANGED << user_id, selected_role, next_id, creator >>

(* ---- Checker: "Approve for Approver" ---- *)
CheckerApprove(review_doc_id) ==
    /\ selected_role = "Checker"
    /\ LET finance_df == get_budgets
           pending == pending_entries(finance_df)
       IN  /\ Len(finance_df) > 0
           /\ Len(pending) > 0
           /\ IF review_doc_id # EmptyId /\ review_doc_id \in Ids(pending)
              THEN LET idx == IndexOf(finance_df, review_doc_id)
                   IN  EndRun([ finance_df EXCEPT
                                  ![idx].Status = "Approved by Checker",
                                  ![idx].CheckerReviewedBy = user_id ],
                              "success")
              ELSE EndRun(finance_df, "warning")
    /\ UNCHANGED << user_id, selected_role, next_id, creator >>

(* Faulty variant of CheckerSendBack: CheckerComments is not written.      *)
CheckerSendBack_no_comment(review_doc_id) ==
    /\ selected_role = "Checker"
    /\ LET finance_df == get_budgets
           pending == pending_entries(finance_df)
       IN  /\ Len(finance_df) > 0
           /\ Len(pending) > 0
           /\ IF review_doc_id # EmptyId /\ review_doc_id \in Ids(pending)
              THEN LET idx == IndexOf(finance_df, review_doc_id)
                   IN  EndRun([ finance_df EXCEPT
                                  ![idx].Status = "Draft",
                                  ![idx].CheckerReviewedBy = user_id ],
                              "info")
              ELSE EndRun(finance_df, "warning")
    /\ UNCHANGED << user_id, selected_role, next_id, creator >>

(* ---- Checker: "Send Back to Maker" ---- *)
CheckerSendBack(review_doc_id) ==
    /\ selected_role = "Checker"
    /\ LET finance_df == get_budgets
           pending == pending_entries(finance_df)
       IN  /\ Len(finance_df) > 0
           /\ Len(pending) > 0
           /\ IF review_doc_id # EmptyId /\ review_doc_id \in Ids(pending)
              THEN LET idx == IndexOf(finance_df, review_doc_id)
                   IN  EndRun([ finance_df EXCEPT
                                  ![idx].Status = "Draft",
                                  ![idx].CheckerComments = "Needs revision by Maker",
                                  ![idx].CheckerReviewedBy = user_id ],
                              "info")
              ELSE EndRun(finance_df, "warning")
    /\ UNCHANGED << user_id, selected_role, next_id, creator >>

(* Faulty variant of FinalApprove: the button is outside the Approver      *)
(* branch, so every role has it.                                           *)
FinalApprove_in_every_role(approve_doc_id) ==
    /\ LET finance_df == get_budgets
           awaiting == entries_for_approval(finance_df)
       IN  /\ Len(finance_df) > 0
           /\ Len(awaiting) > 0
           /\ IF approve_doc_id # EmptyId /\ approve_doc_id \in Ids(awaiting)
              THEN LET idx == IndexOf(finance_df, approve_doc_id)
                   IN  EndRun([ finance_df EXCEPT
                                  ![idx].Status = "Approved",
                                  ![idx].ApprovedBy = user_id ],
                              "success")
              ELSE EndRun(finance_df, "warning")
    /\ UNCHANGED << user_id, selected_role, next_id, creator >>

(* ---- Approver: "Final Approve" ---- *)
FinalApprove(approve_doc_id) ==
    /\ selected_role = "Approver"
    /\ LET finance_df == get_budgets
           awaiting == entries_for_approval(finance_df)
       IN  /\ Len(finance_df) > 0
           /\ Len(awaiting) > 0
           /\ IF approve_doc_id # EmptyId /\ approve_doc_id \in Ids(awaiting)
              THEN LET idx == IndexOf(finance_df, approve_doc_id)
                   IN  EndRun([ finance_df EXCEPT
                                  ![idx].Status = "Approved",
                                  ![idx].ApprovedBy = user_id ],
                              "success")
              ELSE EndRun(finance_df, "warning")
    /\ UNCHANGED << user_id, selected_role, next_id, creator >>

(* Faulty variant of Reject: the actor is written to ApprovedBy.            *)
Reject_writes_approved_by(approve_doc_id) ==
    /\ selected_role = "Approver"
    /\ LET finance_df == get_budgets
           awaiting == entries_for_approval(finance_df)
       IN  /\ Len(finance_df) > 0
           /\ Len(awaiting) > 0
           /\ IF approve_doc_id # EmptyId /\ approve_doc_id \in Ids(awaiting)
              THEN LET idx == IndexOf(finance_df, approve_doc_id)
                   IN  EndRun([ finance_df EXCEPT
                                  ![idx].Status = "Rejected",
                                  ![idx].ApprovedBy = user_id ],
                              "error")
              ELSE EndRun(finance_df, "warning")
    /\ UNCHANGED << user_id, selected_role, next_id, creator >>

(* Faulty variant of Reject: the status is assigned on the whole selection  *)
(* instead of the row of the id.                                           *)
Reject_whole_selection(approve_doc_id) ==
    /\ selected_role = "Approver"
    /\ LET finance_df == get_budgets
           awaiting == entries_for_approval(finance_df)
       IN  /\ Len(finance_df) > 0
           /\ Len(awaiting) > 0
           /\ IF approve_doc_id # EmptyId /\ approve_doc_id \in Ids(awaiting)
              THEN EndRun([ i \in 1 .. Len(finance_df) |->
                              IF finance_df[i].id \in Ids(awaiting)
                              THEN [ finance_df[i] EXCEPT !.Status = "Rejected",
                                                          !.RejectedBy = user_id ]
                              ELSE finance_df[i] ],
                          "error")
              ELSE EndRun(finance_df, "warning")
    /\ UNCHANGED << user_id, selected_role, next_id, creator >>

(* ---- Approver: "Reject" ---- *)
Reject(approve_doc_id) ==
    /\ selected_role = "Approver"
    /\ LET finance_df == get_budgets
           awaiting == entries_for_approval(finance_df)
       IN  /\ Len(finance_df) > 0
           /\ Len(awaiting) > 0
           /\ IF approve_doc_id # EmptyId /\ approve_doc_id \in Ids(awaiting)
              THEN LET idx == IndexOf(finance_df, approve_doc_id)
                   IN  EndRun([ finance_df EXCEPT
                                  ![idx].Status = "Rejected",
                                  ![idx].RejectedBy = user_id ],
                              "error")
              ELSE EndRun(finance_df, "warning")
    /\ UNCHANGED << user_id, selected_role, next_id, creator >>

(* ---- the KPI handlers (Maker branch) ---- *)

(* Values typed into the KPI entry form: a KPI below its target, one with  *)
(* a zero target, and an entry with an empty name.                         *)
KpiFormInputs ==
    { [name |-> "Reach", associated_program |-> "Education",
       target_value |-> 10000, actual_value |-> 9000, unit |-> "%"],
      [name |-> "Reach", associated_program |-> "Education",
       target_value |-> 0, actual_value |-> 5000, unit |-> "%"],
      [name |-> "", associated_program |-> "Education",
       target_value |-> 10000, actual_value |-> 9000, unit |-> "%"] }

(* "On Track" if actual_value >= target_value else "At Risk" *)
kpi_status(target_value, actual_value) ==
    IF actual_value >= target_value THEN "On Track" ELSE "At Risk"

(* The end of a run of a KPI handler: the KPI table the handler left is    *)
(* stored and the rerun recomputes its progress column; the budget table   *)
(* already carries its metric columns (MetricsStored).  A run that changed *)
(* the KPI table counts KpiOpCost in ops.                                  *)
EndKpiRun(df, msg) ==
    LET stored == ComputeProgress(df)
    IN  /\ kpi_data' = stored
        /\ feedback' = msg
        /\ IF stored # kpi_data
           THEN ops + KpiOpCost <= MaxOps /\ ops' = ops + KpiOpCost
           ELSE ops' = ops
        /\ UNCHANGED << finance_data, next_id, creator, was_pending >>

(* ---- Maker: kpi_entry_form, "Save KPI Entry" ---- *)
SaveKpiEntry(selected_kpi_id, form) ==
    /\ selected_role = "Maker"
    /\ LET finance_df == get_budgets
           kpi_df == get_kpis
       IN  /\ selected_kpi_id \in { EmptyId } \cup Ids(kpi_df)
           /\ form.associated_program \in { "" } \cup available_programs(finance_df)
           /\ number_input(MinValue, form.target_value)
           /\ number_input(MinValue, form.actual_value)
           /\ IF form.name = "" \/ form.associated_program = "" \/ form.unit = ""
              THEN /\ EndKpiRun(kpi_df, "warning")
                   /\ UNCHANGED next_kpi_id
              ELSE LET kpi_entry_data ==
                           [ name |-> form.name,
                             associated_program |-> form.associated_program,
                             target_value |-> form.target_value,
                             actual_value |-> form.actual_value,
                             unit |-> form.unit,
                             status |-> kpi_status(form.target_value,
                                                   form.actual_value),
                             last_updated_by |-> user_id ]
                       res == add_or_update_kpi(kpi_df, selected_kpi_id,
                                                kpi_entry_data, next_kpi_id,
                                                next_kpi_id)
                   IN  /\ EndKpiRun(res.df, res.msg)
                       /\ IF selected_kpi_id = EmptyId
                          THEN next_kpi_id' = next_kpi_id + 1
                          ELSE UNCHANGED next_kpi_id
    /\ UNCHANGED << user_id, selected_role >>

(* ---- Maker: "Delete Selected KPI Entry" ---- *)
DeleteKpiEntry(delete_kpi_id) ==
    /\ selected_role = "Maker"
    /\ LET kpi_df == get_kpis
           own == maker_kpis(kpi_df)
       IN  /\ Len(kpi_df) > 0
           /\ Len(own) > 0
           /\ IF delete_kpi_id # EmptyId /\ delete_kpi_id \in Ids(own)
              THEN LET res == delete_kpi(kpi_df, delete_kpi_id)
                   IN  EndKpiRun(res.df, res.msg)
              ELSE EndKpiRun(kpi_df, "warning")
    /\ UNCHANGED << user_id, selected_role, next_kpi_id >>

Next ==
    \/ \E r \in Roles : SelectRole(r)
    \/ \E d \in TypedIds, f \in FormInputs : SaveBudgetEntry(d, f)
    \/ \E d \in TypedIds : SubmitBudget(d)
    \/ \E d \in TypedIds : DeleteEntry(d)
    \/ \E d \in TypedIds : CheckerApprove(d)
    \/ \E d \in TypedIds : CheckerSendBack(d)
    \/ \E d \in TypedIds : FinalApprove(d)
    \/ \E d \in TypedIds : Reject(d)

Spec == Init /\ [][Next]_vars

(* the budget workflow together with the KPI handlers *)
NextAll ==
    \/ Next
    \/ \E k \in TypedKpiIds, f \in KpiFormInputs : SaveKpiEntry(k, f)
    \/ \E k \in TypedKpiIds : DeleteKpiEntry(k)

SpecAll == Init /\ [][NextAll]_vars

(* ---- the metric computation applied to arbitrary amounts ---- *)
Amounts == 0 .. MaxAmount \cup { 25000, 28000, 30000, 32000 }

(* a session whose budget table is one row with any budget and actual,     *)
(* before the first run has computed its metric columns                    *)
InitMetrics ==
    /\ \E budget \in Amounts, actual \in Amounts :
          finance_data = << NewRow(1, "Health", "Travel", budget, actual,
                                   "Draft", "Test Finance", 0) >>
    /\ user_id = "Test Finance"
    /\ selected_role = "Viewer"
    /\ next_id = 2
    /\ feedback = "none"
    /\ ops = 0
    /\ creator = << "Test Finance" >>
    /\ kpi_data = ComputeProgress(kpi_dummy_data)
    /\ next_kpi_id = InitKpiRows + 1
    /\ was_pending = NotePending({}, finance_data)

(* the top of a script run: finance_df = get_budgets() and the assignment  *)
(* of its metric columns                                                   *)
MetricRun ==
    /\ finance_data' = ComputeMetrics(get_budgets)
    /\ UNCHANGED << user_id, selected_role, next_id, feedback, ops, creator,
                    kpi_data, next_kpi_id, was_pending >>

SpecMetrics == InitMetrics /\ [][MetricRun]_vars

(* ---- the progress computation applied to arbitrary values ---- *)
KpiAmounts == 0 .. MaxAmount \cup { 85, 90, 9000, 10000, 12000 }

(* a session whose KPI table is one row with any target and actual value,  *)
(* before the first run has computed its progress column                   *)
InitProgress ==
    /\ \E target \in KpiAmounts, actual \in KpiAmounts :
          kpi_data = << NewKpiRow(1, "Reach", "Education", target, actual, "%",
                                  "At Risk", "Test Finance", 0) >>
    /\ finance_data = ComputeMetrics(financial_dummy_data)
    /\ user_id = "Test Finance"
    /\ selected_role = "Viewer"
    /\ next_id = InitRows + 1
    /\ feedback = "none"
    /\ ops = 0
    /\ creator = [ i \in 1 .. InitRows |-> DummyLastUpdatedBy[i] ]
    /\ next_kpi_id = 2
    /\ was_pending = NotePending({}, finance_data)

(* the top of a script run: kpi_df = get_kpis() and the assignment of its  *)
(* progress column                                                         *)
ProgressRun ==
    /\ kpi_data' = ComputeProgress(get_kpis)
    /\ UNCHANGED << finance_data, user_id, selected_role, next_id, feedback,
                    ops, creator, next_kpi_id, was_pending >>

SpecProgress == InitProgress /\ [][ProgressRun]_vars

(* ---- delete_budget applied to arbitrary tables and ids ---- *)

(* the tables of distinct rows out of the first DeleteRows dummy rows, in  *)
(* any order (a uuid order is arbitrary), with their metric columns        *)
DeleteTables ==
    LET picks == UNION { [ 1 .. n -> 1 .. DeleteRows ] : n \in 0 .. DeleteRows }
        distinct == { p \in picks : \A i, j \in DOMAIN p : p[i] = p[j] => i = j }
    IN  { ComputeMetrics(
            [ i \in DOMAIN p |->
                NewRow(p[i], DummyProgram[p[i]], DummyCategory[p[i]],
                       DummyBudget[p[i]], DummyActual[p[i]], DummyStatus[p[i]],
                       DummyLastUpdatedBy[p[i]], 0) ]) : p \in distinct }

(* the ids delete_budget is called with: the ids of the rows, one that no  *)
(* row has, and the empty id                                               *)
DeleteIds == 0 .. DeleteRows + 1

InitDelete ==
    /\ finance_data \in DeleteTables
    /\ user_id = "Test Finance"
    /\ selected_role = "Maker"
    /\ next_id = DeleteRows + 1
    /\ feedback = "none"
    /\ ops = 0
    /\ creator = [ i \in 1 .. DeleteRows |-> DummyLastUpdatedBy[i] ]
    /\ kpi_data = ComputeProgress(kpi_dummy_data)
    /\ next_kpi_id = InitKpiRows + 1
    /\ was_pending = NotePending({}, finance_data)

(* a call of delete_budget(doc_id) and the rerun it ends in *)
DeleteCall(doc_id) ==
    /\ LET res == delete_budget(get_budgets, doc_id)
       IN  /\ finance_data' = ComputeMetrics(res.df)
           /\ feedback' = res.msg
           /\ was_pending' = NotePending(was_pending, res.df)
    /\ UNCHANGED << user_id, selected_role, next_id, ops, creator,
                    kpi_data, next_kpi_id >>

NextDelete == \E d \in DeleteIds : DeleteCall(d)

SpecDelete == InitDelete /\ [][NextDelete]_vars

(* ---- vocabulary of the properties ---- *)
RowOf(df, id) == df[IndexOf(df, id)]

StatusIn(id, set) ==
    /\ id \in Ids(finance_data)
    /\ RowOf(finance_data, id).Status \in set

OwnedByUser(id) ==
    /\ id \in Ids(finance_data)
    /\ RowOf(finance_data, id).LastUpdatedBy = user_id

Changed == finance_data' # finance_data

Kept(id) == id \in Ids(finance_data) /\ id \in Ids(finance_data')

Removed(id) == Changed /\ id \in Ids(finance_data) /\ id \notin Ids(finance_data')

StatusStep(id, from, to) ==
    /\ Changed
    /\ Kept(id)
    /\ RowOf(finance_data, id).Status \in from
    /\ RowOf(finance_data', id).Status \in to

StatusChanged(id) ==
    /\ Changed
    /\ Kept(id)
    /\ RowOf(finance_data', id).Status # RowOf(finance_data, id).Status

MakerFields == { "Program", "Category", "Budget", "Actual" }

SameOn(id, fields) ==
    LET before == RowOf(finance_data, id)
        after == RowOf(finance_data', id)
    IN  \A k \in fields : after[k] = before[k]

Refused == finance_data' = finance_data /\ feedback' = "warning"

TypeOK ==
    /\ selected_role \in Roles
    /\ \A i \in 1 .. Len(finance_data) : finance_data[i].Status \in Statuses

(* the stored table always carries the metric columns of its own rows, so  *)
(* computing them again at the top of a run changes nothing                *)
MetricsStored == finance_data = ComputeMetrics(finance_data)

(* likewise for the progress column of the KPI table *)
ProgressStored == kpi_data = ComputeProgress(kpi_data)

(* C1: a budget record created by A is never submitted and never deleted   *)
(* by a different actor: in every step, a record that is submitted         *)
(* (Draft or Rejected -> Pending Approval) or removed from the store was   *)
(* created by the acting user.                                             *)
C1_OnlyCreatorSubmitsOrDeletes ==
    [][ \A id \in Ids(finance_data) :
          ( \/ StatusStep(id, { "Draft", "Rejected" }, { "Pending Approval" })
            \/ Removed(id) )
          => creator[id] = user_id ]_vars

(* C2: every step that changes the status of a record that stays in the    *)
(* store is one of the table's transitions, taken under the table's role:  *)
(* Draft/Rejected -> Pending Approval (Maker), Pending Approval ->         *)
(* Approved by Checker or Draft (Checker), Pending Approval/Approved by    *)
(* Checker -> Approved or Rejected (Approver).                             *)
TransitionTable ==
    ( { "Draft", "Rejected" } \X { "Pending Approval" } \X { "Maker" } )
    \cup ( { "Pending Approval" } \X { "Approved by Checker", "Draft" } \X { "Checker" } )
    \cup ( { "Pending Approval", "Approved by Checker" }
             \X { "Approved", "Rejected" } \X { "Approver" } )

C2_StatusChangesFollowTable ==
    [][ \A id \in Ids(finance_data) :
          StatusChanged(id)
          => << RowOf(finance_data, id).Status,
                RowOf(finance_data', id).Status,
                selected_role >> \in TransitionTable ]_vars

(* C2 witness: one record has been rejected by the Approver and another    *)
(* has been sent back to Draft by the Checker.                             *)
C2_Witness ==
    \E i, j \in 1 .. Len(finance_data) :
        /\ finance_data[i].Status = "Rejected"
        /\ finance_data[i].RejectedBy = user_id
        /\ finance_data[j].Status = "Draft"
        /\ finance_data[j].CheckerReviewedBy = user_id

(* C3: once a record is Approved, no step changes its program, category,   *)
(* budget, actual or lastUpdatedBy.                                        *)
C3_ApprovedIsNeverUpdated ==
    [][ \A id \in Ids(finance_data) :
          ( Changed /\ StatusIn(id, { "Approved" }) /\ Kept(id) )
          => SameOn(id, MakerFields \cup { "LastUpdatedBy" }) ]_vars

C6_CreateToApprovedSequence ==
    [][ \A id \in (InitRows + 1) .. next_id :
          /\ ( id \notin Ids(finance_data) /\ id \in Ids(finance_data') )
             => RowOf(finance_data', id).Status = "Draft"
          /\ ( SubmitBudget(id) /\ StatusIn(id, { "Draft" }) )
             => RowOf(finance_data', id).Status = "Pending Approval"
          /\ ( CheckerApprove(id) /\ StatusIn(id, { "Pending Approval" }) )
             => RowOf(finance_data', id).Status = "Approved by Checker"
          /\ ( FinalApprove(id) /\ StatusIn(id, { "Approved by Checker" }) )
             => RowOf(finance_data', id).Status = "Approved"
          /\ StatusIn(id, { "Approved" })
             => /\ ~ SubmitBudget(id)
                /\ id \in Ids(finance_data')
                /\ RowOf(finance_data', id).Status = "Approved" ]_vars

(* C6 witness: a record created in the run is Approved after having been   *)
(* approved by the Checker and by the Approver, and the Maker role is      *)
(* selected again.                                                         *)
C6_Witness ==
    /\ selected_role = "Maker"
    /\ \E i \in 1 .. Len(finance_data) :
          /\ finance_data[i].id > InitRows
          /\ finance_data[i].Status = "Approved"
          /\ finance_data[i].CheckerReviewedBy = user_id
          /\ finance_data[i].ApprovedBy = user_id

(* C7: a step changes the program, category, budget or actual of a record  *)
(* only when the actor equals the record's lastUpdatedBy and the record is *)
(* Draft, Pending Approval or Rejected.                                    *)
C7_EditOnlyOwnOpenRecord ==
    [][ \A id \in Ids(finance_data) :
          ( Changed /\ Kept(id) /\ ~ SameOn(id, MakerFields) )
          => /\ OwnedByUser(id)
             /\ StatusIn(id, { "Draft", "Pending Approval", "Rejected" }) ]_vars

(* C8: a record leaves the store only in a step taken in the Maker role by *)
(* the actor equal to its lastUpdatedBy while it is Draft, Pending         *)
(* Approval or Rejected.                                                   *)
C8_RemovedOnlyByOwningMaker ==
    [][ \A id \in Ids(finance_data) :
          Removed(id)
          => /\ selected_role = "Maker"
             /\ OwnedByUser(id)
             /\ StatusIn(id, { "Draft", "Pending Approval", "Rejected" }) ]_vars

(* C8 witness: an issued id is no longer in the store.                     *)
C8_Witness ==
    /\ feedback = "success"
    /\ \E id \in 1 .. (next_id - 1) : id \notin Ids(finance_data)

(* C9: a step that changes a record's status (submit and the Checker and   *)
(* Approver transitions) leaves its program, category, budget, actual and  *)
(* lastUpdatedBy unchanged; Pending Approval -> Draft sets CheckerComments *)
(* and CheckerReviewedBy = actor.                                          *)
C9_TransitionsKeepMakerFields ==
    [][ \A id \in Ids(finance_data) :
          /\ StatusChanged(id) => SameOn(id, MakerFields \cup { "LastUpdatedBy" })
          /\ StatusStep(id, { "Pending Approval" }, { "Draft" })
             => /\ RowOf(finance_data', id).CheckerComments = "Needs revision by Maker"
                /\ RowOf(finance_data', id).CheckerReviewedBy = user_id ]_vars

(* C9 witness: a record has been sent back: it is Draft with               *)
(* CheckerComments set and still carries the program it was stored with.   *)
C9_Witness ==
    \E i \in 1 .. Len(finance_data) :
        /\ finance_data[i].Status = "Draft"
        /\ finance_data[i].CheckerComments = "Needs revision by Maker"
        /\ finance_data[i].CheckerReviewedBy = user_id
        /\ finance_data[i].Program = "Education"

(* C10: a step that adds a record is taken in the Maker role, adds exactly *)
(* one record, with status Draft, lastUpdatedBy = actor and an id that no  *)
(* stored record has, and leaves the existing records unchanged.           *)
C10_CreateAddsOneDraft ==
    [][ ( Changed /\ Ids(finance_data') \ Ids(finance_data) # {} )
        => /\ selected_role = "Maker"
           /\ Len(finance_data') = Len(finance_data) + 1
           /\ SubSeq(finance_data', 1, Len(finance_data)) = finance_data
           /\ Cardinality(Ids(finance_data')) = Len(finance_data')
           /\ LET new == finance_data'[Len(finance_data')]
              IN  /\ new.id \notin Ids(finance_data)
                  /\ new.Status = "Draft"
                  /\ new.LastUpdatedBy = user_id ]_vars

(* C10 witness: the store holds a record created in the run, still Draft.  *)
C10_Witness ==
    /\ Len(finance_data) = InitRows + 1
    /\ finance_data[Len(finance_data)].id = InitRows + 1
    /\ finance_data[Len(finance_data)].Status = "Draft"
    /\ finance_data[Len(finance_data)].LastUpdatedBy = user_id

(* C11: a save of the budget entry form with an empty program or category, *)
(* or with a negative budget or actual, adds and edits nothing: the store  *)
(* is unchanged; and every stored record has a non-empty program and       *)
(* category and budget >= 0 and actual >= 0.                               *)
InvalidForm(f) ==
    f.Program = "" \/ f.Category = "" \/ f.Budget < 0 \/ f.Actual < 0

ValidRows(df) ==
    \A i \in 1 .. Len(df) :
        /\ df[i].Program # "" /\ df[i].Category # ""
        /\ df[i].Budget >= 0 /\ df[i].Actual >= 0

C11_InvalidEntryRejected ==
    [][ /\ selected_role = "Maker" =>
              \/ Refused
              \/ \A d \in TypedIds, f \in FormInputs :
                    ~ ( InvalidForm(f) /\ SaveBudgetEntry(d, f) )
        /\ ValidRows(finance_data) /\ ValidRows(finance_data') ]_vars

(* C11 witness: a save has just been refused while the store holds a       *)
(* record written by the form.                                             *)
C11_Witness ==
    /\ selected_role = "Maker"
    /\ feedback = "warning"
    /\ \E i \in 1 .. Len(finance_data) :
          /\ finance_data[i].Program = "Health"
          /\ finance_data[i].LastUpdatedBy = user_id

(* C12: in every state the table shown to the Maker holds exactly the      *)
(* records last updated by the user with status Draft, Pending Approval or *)
(* Rejected, the Checker's exactly the Pending Approval records, the       *)
(* Approver's exactly the Pending Approval and Approved by Checker         *)
(* records, the Viewer's exactly the Approved records; and a record whose  *)
(* status a role's run changes (submit, review, approve, reject) or that   *)
(* it deletes was in the table shown to that role.                         *)
RowsWith(df, who, statuses) ==
    { df[i] : i \in { j \in 1 .. Len(df) :
                        /\ df[j].Status \in statuses
                        /\ who \in { "anyone", df[j].LastUpdatedBy } } }

Shown(role, df) ==
    { role_entries(role, df)[i] : i \in 1 .. Len(role_entries(role, df)) }

RoleSees(df) ==
    /\ Shown("Maker", df) =
          RowsWith(df, user_id, { "Draft", "Pending Approval", "Rejected" })
    /\ Shown("Checker", df) = RowsWith(df, "anyone", { "Pending Approval" })
    /\ Shown("Approver", df) =
          RowsWith(df, "anyone", { "Pending Approval", "Approved by Checker" })
    /\ Shown("Viewer", df) = RowsWith(df, "anyone", { "Approved" })

C12_RoleSeesAndActsOnItsRecords ==
    [][ /\ RoleSees(finance_data) /\ RoleSees(finance_data')
        /\ Changed =>
              \A d \in Ids(finance_data) :
                  StatusChanged(d) \/ Removed(d) =>
                      RowOf(finance_data, d) \in Shown(selected_role, finance_data)
      ]_vars

(* C12 witness: the Approver has just approved a record while every role's *)
(* table is non-empty.                                                     *)
C12_Witness ==
    /\ selected_role = "Approver"
    /\ feedback = "success"
    /\ \A r \in Roles : Shown(r, finance_data) # {}

(* C13: in every reachable state the ids of the budget records are         *)
(* pairwise distinct, the ids of the KPI records are pairwise distinct,    *)
(* and the status of every budget record is one of Draft, Pending          *)
(* Approval, Approved by Checker, Approved, Rejected.                      *)
DistinctIds(df) ==
    \A i, j \in 1 .. Len(df) : df[i].id = df[j].id => i = j

C13_IdsDistinctStatusEnumerated ==
    /\ DistinctIds(finance_data)
    /\ DistinctIds(kpi_data)
    /\ \A i \in 1 .. Len(finance_data) : finance_data[i].Status \in Statuses

(* C13 witness: a budget record and a KPI record have been created and the *)
(* budget record has moved on in the workflow.                             *)
C13_Witness ==
    /\ \E i \in 1 .. Len(finance_data) :
          /\ finance_data[i].id > InitRows
          /\ finance_data[i].Status = "Pending Approval"
    /\ \E i \in 1 .. Len(kpi_data) : kpi_data[i].id > InitKpiRows

(* C14: the derived fields (variance, variance percent, progress percent)  *)
(* are never part of the stored records: computing them for a reader       *)
(* leaves the stored tables without them.                                  *)
DerivedColumns == { "Variance", "Variance_pct", "Progress_pct" }

C14_DerivedFieldsNeverStored ==
    /\ \A i \in 1 .. Len(finance_data) :
          DOMAIN finance_data[i] \cap DerivedColumns = {}
    /\ \A i \in 1 .. Len(kpi_data) :
          DOMAIN kpi_data[i] \cap DerivedColumns = {}

(* C15 (as stated): for every record with non-negative budget and actual,  *)
(* variance is actual - budget, and variance percent is exactly            *)
(* variance / budget * 100 when budget is not 0 and 0 when budget is 0.    *)
Computed(df) == { i \in 1 .. Len(df) : "Variance" \in DOMAIN df[i] }

C15_VariancePercentExact ==
    \A i \in Computed(finance_data) :
        LET row == finance_data[i]
        IN  /\ row.Variance = row.Actual - row.Budget
            /\ row.Budget # 0 => row.Variance_pct * row.Budget = row.Variance * 10000
            /\ row.Budget = 0 => row.Variance_pct = 0

(* C15 (amended): variance is actual - budget exactly; variance percent is *)
(* variance / budget * 100 rounded to two decimals (the nearest hundredth) *)
(* when budget is not 0 and 0 when budget is 0; budget 25000 and actual    *)
(* 28000 give variance 3000 and variance percent 12.                       *)
Abs(n) == IF n < 0 THEN 0 - n ELSE n

C15_VariancePercentRounded ==
    \A i \in Computed(finance_data) :
        LET row == finance_data[i]
        IN  /\ row.Variance = row.Actual - row.Budget
            /\ row.Budget # 0 =>
                  2 * Abs(row.Variance_pct * row.Budget - row.Variance * 10000)
                      <= row.Budget
            /\ row.Budget = 0 => row.Variance_pct = 0
            /\ row.Budget = 25000 /\ row.Actual = 28000 =>
                  row.Variance = 3000 /\ row.Variance_pct = 1200

(* C15 witness: a computed record whose variance percent is not a whole    *)
(* number of hundredths before rounding.                                   *)
C15_Witness ==
    \E i \in Computed(finance_data) :
        /\ finance_data[i].Budget = 30000
        /\ finance_data[i].Actual = 32000
        /\ finance_data[i].Variance_pct = 667

(* C16 (as stated): for every KPI record progress percent is exactly       *)
(* actual_value / target_value * 100 when the target is not 0 and 0 when   *)
(* it is 0.                                                                *)
WithProgress(df) == { i \in 1 .. Len(df) : "Progress_pct" \in DOMAIN df[i] }

C16_ProgressPercentExact ==
    \A i \in WithProgress(kpi_data) :
        LET row == kpi_data[i]
        IN  /\ row.target_value # 0 =>
                  row.Progress_pct * row.target_value = row.actual_value * 10000
            /\ row.target_value = 0 => row.Progress_pct = 0

(* C16 (amended): the progress computation gives every KPI record          *)
(* actual_value / target_value * 100 rounded to two decimals when the      *)
(* target is not 0 and 0 when it is 0; the value of the progress bar is    *)
(* that percentage capped at 100 and lies in [0, 100]; the computation     *)
(* leaves target_value and actual_value as stored (target 100 and actual   *)
(* 90 give 90).                                                            *)
C16_ProgressRoundedAndClamped ==
    [][ \A i \in 1 .. Len(kpi_data') :
          LET row == kpi_data'[i]
              bar == progress_bar(row)
          IN  /\ row.target_value # 0 =>
                    2 * Abs(row.Progress_pct * row.target_value
                              - row.actual_value * 10000) <= row.target_value
              /\ row.target_value = 0 => row.Progress_pct = 0
              /\ bar >= 0 /\ bar <= 10000
              /\ bar \in { row.Progress_pct, 10000 }
              /\ row.target_value = kpi_data[i].target_value
              /\ row.actual_value = kpi_data[i].actual_value
              /\ row.target_value = 10000 /\ row.actual_value = 9000 =>
                    row.Progress_pct = 9000 /\ bar = 9000
      ]_vars

(* C16 witness: a computed record whose percentage (4 / 3 * 100) is        *)
(* rounded to 133.33 and whose bar is capped at 100.                       *)
C16_Witness ==
    \E i \in WithProgress(kpi_data) :
        /\ kpi_data[i].target_value = 3
        /\ kpi_data[i].actual_value = 4
        /\ kpi_data[i].Progress_pct = 13333
        /\ progress_bar(kpi_data[i]) = 10000

(* C17: the status of a KPI record is set by the operator and not derived: *)
(* neither the progress calculation nor a save of new target and actual    *)
(* values (the form has no status input) changes the status a record has.  *)
KpiChanged == kpi_data' # kpi_data

C17_KpiStatusNotDerived ==
    [][ KpiChanged =>
          \A k \in Ids(kpi_data) \cap Ids(kpi_data') :
              RowOf(kpi_data', k).status = RowOf(kpi_data, k).status ]_vars

(* C18: a KPI record can be edited and deleted freely: whoever the acting  *)
(* user and whatever the record, a delete of an existing KPI record is     *)
(* accepted and removes it, with no role or ownership precondition.        *)
C18_KpiDeleteAccepted ==
    [][ \A k \in Ids(kpi_data) :
          DeleteKpiEntry(k) => k \notin Ids(kpi_data') ]_vars

C20_DeleteRemovesExactlyThatId ==
    [][ \A d \in DeleteIds :
          DeleteCall(d) =>
              LET old == finance_data
                  new == finance_data'
                  at == IF d \in Ids(old) THEN IndexOf(old, d) ELSE Len(old) + 1
              IN  /\ d \in Ids(old) =>
                        /\ feedback' = "success"
                        /\ Len(new) = Len(old) - 1
                        /\ d \notin Ids(new)
                  /\ d \notin Ids(old) =>
                        /\ feedback' = "warning"
                        /\ new = old
                  /\ \A i \in 1 .. Len(new) :
                        new[i] = IF i < at THEN old[i] ELSE old[i + 1]
      ]_vars

(* C20 witness: a record has just been deleted from between two others,    *)
(* which are out of id order.                                              *)
C20_Witness ==
    /\ feedback = "success"
    /\ Len(finance_data) = 2
    /\ finance_data[1].id > finance_data[2].id
    /\ \E d \in 1 .. DeleteRows :
          /\ d \notin Ids(finance_data)
          /\ d > finance_data[2].id
          /\ d < finance_data[1].id

(* C21: CheckerReviewedBy changes only in a Checker transition out of      *)
(* Pending Approval, CheckerComments only in the Checker's send-back,      *)
(* ApprovedBy only in the final approval and RejectedBy only in the        *)
(* rejection; a record the Maker creates has none of them set; no run in   *)
(* the Maker role (create, edit, submit, delete) changes any of them on a  *)
(* stored record, nor a record's id or created_at; and an edit (a run that *)
(* changes program, category, budget, actual or lastUpdatedBy of a record) *)
(* leaves the record's status unchanged.                                   *)
ReviewFields ==
    { "CheckerReviewedBy", "CheckerComments", "ApprovedBy", "RejectedBy" }

FieldChanged(id, k) ==
    RowOf(finance_data', id)[k] # RowOf(finance_data, id)[k]

C21_ReviewFieldsWrittenByTheirTransitions ==
    [][ Changed =>
          /\ \A id \in Ids(finance_data) \cap Ids(finance_data') :
                /\ FieldChanged(id, "CheckerReviewedBy") =>
                      /\ selected_role = "Checker"
                      /\ StatusStep(id, { "Pending Approval" },
                                    { "Approved by Checker", "Draft" })
                /\ FieldChanged(id, "CheckerComments") =>
                      /\ selected_role = "Checker"
                      /\ StatusStep(id, { "Pending Approval" }, { "Draft" })
                /\ FieldChanged(id, "ApprovedBy") =>
                      /\ selected_role = "Approver"
                      /\ StatusStep(id, { "Pending Approval", "Approved by Checker" },
                                    { "Approved" })
                /\ FieldChanged(id, "RejectedBy") =>
                      /\ selected_role = "Approver"
                      /\ StatusStep(id, { "Pending Approval", "Approved by Checker" },
                                    { "Rejected" })
                /\ selected_role = "Maker" =>
                      /\ SameOn(id, ReviewFields \cup { "created_at" })
                      /\ ~ SameOn(id, MakerFields \cup { "LastUpdatedBy" }) =>
                            /\ SameOn(id, { "Status" })
                            /\ IndexOf(finance_data', id) = IndexOf(finance_data, id)
          /\ \A id \in Ids(finance_data') \ Ids(finance_data) :
                \A k \in ReviewFields : RowOf(finance_data', id)[k] = NaN
      ]_vars

(* C21 witness: the Maker has just edited a dummy record that the Checker  *)
(* had sent back: the record carries the edit and still the Checker's      *)
(* comment and reviewer.                                                   *)
C21_Witness ==
    /\ selected_role = "Maker"
    /\ feedback = "success"
    /\ \E i \in 1 .. Len(finance_data) :
          /\ finance_data[i].created_at = 0
          /\ finance_data[i].Program = "Health"
          /\ finance_data[i].LastUpdatedBy = user_id
          /\ finance_data[i].Status = "Draft"
          /\ finance_data[i].CheckerComments = "Needs revision by Maker"
          /\ finance_data[i].CheckerReviewedBy = user_id

(* C22: a budget operation aimed at the record with id d (an edit, a       *)
(* submit, a Checker or Approver transition, a delete; a creation aims at  *)
(* no stored record) leaves every other budget record in the store with    *)
(* all its fields unchanged and changes no KPI record; a KPI operation     *)
(* aimed at a KPI record leaves every other KPI record unchanged and       *)
(* changes no budget record.                                               *)
BudgetOpAimedAt(d) ==
    \/ \E f \in FormInputs : SaveBudgetEntry(d, f)
    \/ SubmitBudget(d)
    \/ DeleteEntry(d)
    \/ CheckerApprove(d)
    \/ CheckerSendBack(d)
    \/ FinalApprove(d)
    \/ Reject(d)

KpiOpAimedAt(k) ==
    \/ \E f \in KpiFormInputs : SaveKpiEntry(k, f)
    \/ DeleteKpiEntry(k)

OthersUnchanged(old, new, d) ==
    \A id \in Ids(old) \ { d } :
        /\ id \in Ids(new)
        /\ RowOf(new, id) = RowOf(old, id)

C22_OperationsOnDifferentIdsIndependent ==
    [][ /\ Changed =>
              /\ kpi_data' = kpi_data
              /\ \A d \in TypedIds :
                    BudgetOpAimedAt(d) => OthersUnchanged(finance_data, finance_data', d)
        /\ KpiChanged =>
              /\ finance_data' = finance_data
              /\ \A k \in TypedKpiIds :
                    KpiOpAimedAt(k) => OthersUnchanged(kpi_data, kpi_data', k)
      ]_vars

(* C22 witness: the Approver has just rejected one of two records that     *)
(* were awaiting approval; the other one is still awaiting; a KPI record   *)
(* has been created in the session.                                        *)
C22_Witness ==
    /\ selected_role = "Approver"
    /\ feedback = "error"
    /\ \E i, j \in 1 .. Len(finance_data) :
          /\ finance_data[i].Status = "Rejected"
          /\ finance_data[i].RejectedBy = user_id
          /\ finance_data[j].Status = "Pending Approval"
    /\ Len(kpi_data) > InitKpiRows

(* C23: Approved is absorbing: a record whose status is Approved is in the *)
(* store after every step, with status Approved.  (Rejected is not         *)
(* absorbing: the witness is a record that was rejected and is Pending     *)
(* Approval again after the submit of the Maker it belongs to.)            *)
C23_ApprovedIsAbsorbing ==
    [][ \A id \in Ids(finance_data) :
          RowOf(finance_data, id).Status = "Approved" =>
              /\ id \in Ids(finance_data')
              /\ RowOf(finance_data', id).Status = "Approved" ]_vars

(* C23 witness: a record approved in the session is Approved, and a record *)
(* rejected in the session has been submitted again by its Maker.          *)
C23_Witness ==
    \E i, j \in 1 .. Len(finance_data) :
        /\ finance_data[i].Status = "Approved"
        /\ finance_data[i].ApprovedBy = user_id
        /\ finance_data[j].Status = "Pending Approval"
        /\ finance_data[j].RejectedBy = user_id
        /\ finance_data[j].LastUpdatedBy = user_id

(* C24: in every reachable state a record whose ApprovedBy is set has      *)
(* status Approved; RejectedBy, CheckerReviewedBy and CheckerComments,     *)
(* once set, are not cleared by any step (so a record that re-enters the   *)
(* cycle carries them with another status, which the witness reaches).     *)
ApprovedByImpliesApproved(df) ==
    \A i \in 1 .. Len(df) : df[i].ApprovedBy # NaN => df[i].Status = "Approved"

C24_ApprovedByOnlyOnApproved ==
    [][ /\ ApprovedByImpliesApproved(finance_data)
        /\ ApprovedByImpliesApproved(finance_data')
        /\ Changed =>
              \A id \in Ids(finance_data) \cap Ids(finance_data') :
                  \A k \in { "RejectedBy", "CheckerReviewedBy", "CheckerComments" } :
                      RowOf(finance_data, id)[k] # NaN =>
                          RowOf(finance_data', id)[k] # NaN
      ]_vars

(* C24 witness: a record that was sent back, resubmitted, rejected,        *)
(* resubmitted and finally approved: ApprovedBy is set with status         *)
(* Approved, while RejectedBy, CheckerReviewedBy and CheckerComments are   *)
(* still set.                                                              *)
C24_Witness ==
    \E i \in 1 .. Len(finance_data) :
        /\ finance_data[i].ApprovedBy = user_id
        /\ finance_data[i].Status = "Approved"
        /\ finance_data[i].RejectedBy = user_id
        /\ finance_data[i].CheckerReviewedBy = user_id
        /\ finance_data[i].CheckerComments = "Needs revision by Maker"

(* C25: a budget record created in the session has status Approved by      *)
(* Checker, Approved or Rejected only if it had status Pending Approval in *)
(* an earlier state; and a record gets status Pending Approval only by a   *)
(* submit in the Maker role of the user who is its lastUpdatedBy, out of   *)
(* Draft or Rejected.  (The Approver's approval needs no Checker approval  *)
(* before it: the witness is a created record that is Approved and was     *)
(* never reviewed by the Checker.)                                         *)
CreatedInSession(row) == row.id > InitRows

C25_DecidedOnlyAfterPending ==
    [][ /\ \A i \in 1 .. Len(finance_data') :
              ( /\ CreatedInSession(finance_data'[i])
                /\ finance_data'[i].Status \in
                      { "Approved by Checker", "Approved", "Rejected" } )
              => finance_data'[i].id \in was_pending
        /\ \A id \in was_pending' \ was_pending :
              /\ selected_role = "Maker"
              /\ id \in Ids(finance_data)
              /\ RowOf(finance_data, id).LastUpdatedBy = user_id
              /\ RowOf(finance_data, id).Status \in { "Draft", "Rejected" }
              /\ RowOf(finance_data', id).Status = "Pending Approval"
      ]_vars

(* C25 witness: a record created in the session is Approved, was Pending   *)
(* Approval before, and no Checker has reviewed it.                        *)
C25_Witness ==
    \E i \in 1 .. Len(finance_data) :
        /\ CreatedInSession(finance_data[i])
        /\ finance_data[i].Status = "Approved"
        /\ finance_data[i].ApprovedBy = user_id
        /\ finance_data[i].CheckerReviewedBy = NaN
        /\ finance_data[i].id \in was_pending

====
